---- MODULE Spec2Model ----
(***************************************************************************)
(* tas_agent: TEE evidence collection (tee_evidence.rs), the provisioning  *)
(* flow (main.rs), the secret envelope (utils.rs) and the RSA / AES        *)
(* operations (crypto.rs).                                                 *)
(*                                                                         *)
(* Byte strings are sequences over 0..255.  Text that the code inspects    *)
(* character by character (the nonce, the provider file, base64 text) is a *)
(* sequence of symbols.  Results are records with an "ok" field: Ok(v) is  *)
(* [ok |-> TRUE, val |-> v], Err(m) is [ok |-> FALSE, err |-> m].          *)
(***************************************************************************)
EXTENDS Integers, Sequences, FiniteSets, TLC

Ok(v) == [ok |-> TRUE, val |-> v]
Err(m) == [ok |-> FALSE, err |-> m]
None == [none |-> TRUE]
\* an optional value, as a local not yet assigned is: <<>> or <<v>>
Nothing == <<>>
Some(v) == <<v>>

(***************************************************************************)
(* Bounds of the model (not program constants).                            *)
(***************************************************************************)
\* the most double quotes put on either side of a nonce
MaxQuotes == 2
\* the number of scope names tempdir_in can draw from
MaxScopeNames == 2

(***************************************************************************)
(* Byte helpers.                                                           *)
(***************************************************************************)
Rep(b, n) == [i \in 1..n |-> b]

Mod256(x) == ((x % 256) + 256) % 256

RECURSIVE Xor(_, _)
Xor(a, b) ==
    IF a = 0 THEN b
    ELSE IF b = 0 THEN a
    ELSE ((a + b) % 2) + 2 * Xor(a \div 2, b \div 2)

XorBytes(x, y) == [i \in 1..Len(x) |-> Xor(x[i], y[i])]

\* the sum of i * s[i] over lo..hi
RECURSIVE WeightedSum(_, _, _)
WeightedSum(s, lo, hi) ==
    IF lo > hi THEN 0
    ELSE IF lo = hi THEN lo * s[lo]
    ELSE LET mid == (lo + hi) \div 2 IN
         WeightedSum(s, lo, mid) + WeightedSum(s, mid + 1, hi)

\* n bytes that differ from one position to the next
Pattern(n, a) == [i \in 1..n |-> Mod256(a * i + 1)]

\* outcomes of the random source
RngInputs == {3, 5}

\* s with byte i replaced by another value (a single-byte mutation)
Mutate(s, i, d) == [s EXCEPT ![i] = Mod256(s[i] + d)]

(***************************************************************************)
(* Standard base64 (base64::engine::general_purpose::STANDARD).  A text is *)
(* a sequence of symbols: 0..63 are the alphabet's characters by value, 64 *)
(* is '=', 65 is a character outside the alphabet.                         *)
(***************************************************************************)
B64Pad == 64
B64Bad == 65

B64Encode(bytes) ==
    LET n == Len(bytes)
        byte(i) == IF i <= n THEN bytes[i] ELSE 0
    IN
    [j \in 1..(4 * ((n + 2) \div 3)) |->
        LET g == 3 * ((j - 1) \div 4)
            p == (j - 1) % 4
        IN
        IF p = 0 THEN byte(g + 1) \div 4
        ELSE IF p = 1 THEN (byte(g + 1) % 4) * 16 + byte(g + 2) \div 16
        ELSE IF p = 2 THEN
            IF g + 2 <= n THEN (byte(g + 2) % 16) * 4 + byte(g + 3) \div 64
            ELSE B64Pad
        ELSE IF g + 3 <= n THEN byte(g + 3) % 64 ELSE B64Pad]

\* one group of four symbols, the last group of a text or not
B64Group(g, last) ==
    LET sext(k) == g[k] < 64 IN
    IF sext(1) /\ sext(2) /\ sext(3) /\ sext(4) THEN
        Ok(<< g[1] * 4 + g[2] \div 16,
              (g[2] % 16) * 16 + g[3] \div 4,
              (g[3] % 4) * 64 + g[4] >>)
    ELSE IF last /\ sext(1) /\ sext(2) /\ sext(3) /\ g[4] = B64Pad
            /\ g[3] % 4 = 0 THEN
        Ok(<< g[1] * 4 + g[2] \div 16, (g[2] % 16) * 16 + g[3] \div 4 >>)
    ELSE IF last /\ sext(1) /\ sext(2) /\ g[3] = B64Pad /\ g[4] = B64Pad
            /\ g[2] % 16 = 0 THEN
        Ok(<< g[1] * 4 + g[2] \div 16 >>)
    ELSE Err("Base64 decoding error")

B64Decode(text) ==
    LET groups == Len(text) \div 4
        group(g) == B64Group(SubSeq(text, 4 * g - 3, 4 * g), g = groups)
    IN
    IF Len(text) % 4 # 0 THEN Err("Base64 decoding error")
    ELSE IF \E g \in 1..groups : ~group(g).ok THEN Err("Base64 decoding error")
    ELSE IF groups = 0 THEN Ok(<<>>)
    ELSE
        LET n == 3 * (groups - 1) + Len(group(groups).val) IN
        Ok([i \in 1..n |-> group(((i - 1) \div 3) + 1).val[((i - 1) % 3) + 1]])

(***************************************************************************)
(* AES-256-CBC with PKCS#7 padding (the cbc / aes crates behind            *)
(* Aes256CbcEnc and Aes256CbcDec).  The block cipher itself is a stand-in: *)
(* a keyed bijection on 16-byte blocks.  The chaining and the padding are  *)
(* the real ones.                                                          *)
(***************************************************************************)
AesKeyLen == 32
AesBlockLen == 16

BlockKeyByte(key, i) == Mod256(key[i] + 3 * key[i + AesBlockLen] + 17 * i)

\* the block permutation: add the key schedule, then unchain the bytes
\* backwards and forwards, so that decryption spreads a changed byte of the
\* ciphertext block over the plaintext block
BlockEncrypt(key, b) ==
    LET t == [i \in 1..AesBlockLen |-> Mod256(b[i] + BlockKeyByte(key, i))]
        u == [i \in 1..AesBlockLen |->
                IF i = AesBlockLen THEN t[i] ELSE Mod256(t[i] - 3 * t[i + 1])]
    IN [i \in 1..AesBlockLen |->
            IF i = 1 THEN u[i] ELSE Mod256(u[i] - 5 * u[i - 1])]

BlockDecrypt(key, c) ==
    LET u[i \in 1..AesBlockLen] ==
            IF i = 1 THEN c[i] ELSE Mod256(c[i] + 5 * u[i - 1])
        t[i \in 1..AesBlockLen] ==
            IF i = AesBlockLen THEN u[AesBlockLen]
            ELSE Mod256(u[i] + 3 * t[i + 1])
    IN [i \in 1..AesBlockLen |-> Mod256(t[i] - BlockKeyByte(key, i))]

Pkcs7Pad(data) ==
    LET n == AesBlockLen - (Len(data) % AesBlockLen) IN data \o Rep(n, n)

Pkcs7Unpad(data) ==
    IF Len(data) = 0 THEN Err("Decryption error: UnpadError")
    ELSE
        LET n == data[Len(data)] IN
        IF n = 0 \/ n > AesBlockLen THEN Err("Decryption error: UnpadError")
        ELSE IF \E i \in (Len(data) - n + 1)..Len(data) : data[i] # n
            THEN Err("Decryption error: UnpadError")
        ELSE Ok(SubSeq(data, 1, Len(data) - n))

RECURSIVE CbcEncryptBlocks(_, _, _)
CbcEncryptBlocks(key, prev, data) ==
    IF Len(data) = 0 THEN <<>>
    ELSE
        LET c == BlockEncrypt(key, XorBytes(SubSeq(data, 1, AesBlockLen), prev)) IN
        c \o CbcEncryptBlocks(key, c, SubSeq(data, AesBlockLen + 1, Len(data)))

RECURSIVE CbcDecryptBlocks(_, _, _)
CbcDecryptBlocks(key, prev, data) ==
    IF Len(data) = 0 THEN <<>>
    ELSE
        LET c == SubSeq(data, 1, AesBlockLen) IN
        XorBytes(BlockDecrypt(key, c), prev)
        \o CbcDecryptBlocks(key, c, SubSeq(data, AesBlockLen + 1, Len(data)))

\* KeyIvInit::new_from_slices
CbcNewFromSlices(key, iv) ==
    IF Len(key) # AesKeyLen \/ Len(iv) # AesBlockLen
    THEN Err("Invalid Length") ELSE Ok(<<key, iv>>)

\* BlockDecryptMut::decrypt_padded_mut::<Pkcs7>
CbcDecryptPadded(key, iv, ciphertext) ==
    IF Len(ciphertext) % AesBlockLen # 0 THEN Err("Decryption error: UnpadError")
    ELSE Pkcs7Unpad(CbcDecryptBlocks(key, iv, ciphertext))

\* BlockEncryptMut::encrypt_padded_vec_mut::<Pkcs7>
CbcEncryptPadded(key, iv, plaintext) ==
    CbcEncryptBlocks(key, iv, Pkcs7Pad(plaintext))

\* the decryption without the padding removed
decrypt_secret_with_aes_key_padded(aes_key, iv, ciphertext) ==
    IF Len(aes_key) # 32 THEN Err("AES key length must be 32 bytes (256 bits)")
    ELSE IF Len(iv) # 16 THEN Err("AES IV length must be 16 bytes (128 bits)")
    ELSE IF Len(ciphertext) % AesBlockLen # 0 THEN Err("Decryption error")
    ELSE Ok(CbcDecryptBlocks(aes_key, iv, ciphertext))

decrypt_secret_with_aes_key(aes_key, iv, ciphertext) ==
    IF Len(aes_key) # 32 THEN Err("AES key length must be 32 bytes (256 bits)")
    ELSE IF Len(iv) # 16 THEN Err("AES IV length must be 16 bytes (128 bits)")
    ELSE
        LET cipher == CbcNewFromSlices(aes_key, iv) IN
        IF ~cipher.ok THEN cipher
        ELSE CbcDecryptPadded(aes_key, iv, ciphertext)

\* an IV of any length taken, cut or filled with zeros to one block
encrypt_secret_with_aes_key_any_iv(aes_key, iv, plaintext) ==
    IF Len(aes_key) # 32 THEN Err("AES key length must be 32 bytes (256 bits)")
    ELSE Ok(CbcEncryptPadded(aes_key, SubSeq(iv \o Rep(0, 16), 1, 16), plaintext))

encrypt_secret_with_aes_key(aes_key, iv, plaintext) ==
    LET cipher == CbcNewFromSlices(aes_key, iv) IN
    IF ~cipher.ok THEN cipher
    ELSE IF Len(aes_key) # 32 THEN Err("AES key length must be 32 bytes (256 bits)")
    ELSE IF Len(iv) # 16 THEN Err("AES IV length must be 16 bytes (128 bits)")
    ELSE Ok(CbcEncryptPadded(aes_key, iv, plaintext))

(***************************************************************************)
(* RSA with OAEP padding (the rsa crate behind RsaPublicKey::encrypt and   *)
(* RsaPrivateKey::decrypt).  The trapdoor permutation and the hash are     *)
(* stand-ins; the EME-OAEP encoding, its length limit and its checks are   *)
(* the real ones.  A padding scheme is [name, hLen, id].                   *)
(***************************************************************************)
OaepSha256 == [name |-> "oaep-sha256", hLen |-> 32, id |-> 56]

\* the hash of the empty label, and the mask generation function: the
\* digest is a checksum modulo a prime, which no change of a single byte
\* leaves as it was
LHash(pad) == [i \in 1..pad.hLen |-> Mod256(pad.id + 29 * i)]
Digest(pad, x) == (WeightedSum(x, 1, Len(x)) + Len(x) + pad.id) % 65521
Mgf(pad, x, n) ==
    LET digest == Digest(pad, x) IN
    [i \in 1..n |->
        Mod256((IF i % 2 = 1 THEN digest % 256 ELSE digest \div 256) + 13 * i)]

ModulusLen(key) == key.bits \div 8

RsaPublicOp(pub, x) == [i \in 1..Len(x) |-> Mod256(x[i] + pub.e)]
RsaPrivateOp(priv, y) == [i \in 1..Len(y) |-> Mod256(y[i] + priv.d)]

\* RsaPublicKey::from(&RsaPrivateKey)
PublicFromPrivate(priv) == [bits |-> priv.bits, e |-> Mod256(0 - priv.d)]

\* RsaPrivateKey::new(rng, bits): the key the random source r yields
RsaPrivateKeyNew(r, bits) == [bits |-> bits, d |-> r]

OaepEncrypt(pub, pad, seed, msg) ==
    LET k == ModulusLen(pub)
        h == pad.hLen
    IN
    IF Len(msg) + 2 * h + 2 > k THEN Err("message too long")
    ELSE
        LET db == LHash(pad) \o Rep(0, k - Len(msg) - 2 * h - 2) \o <<1>> \o msg
            maskedDb == XorBytes(db, Mgf(pad, seed, k - h - 1))
            maskedSeed == XorBytes(seed, Mgf(pad, maskedDb, h))
        IN Ok(RsaPublicOp(pub, <<0>> \o maskedSeed \o maskedDb))

\* the index of the 0x01 separator after the zero padding that starts at
\* from, 0 when there is none
OaepSeparator(db, from) ==
    LET nonzero == {i \in from..Len(db) : db[i] # 0} IN
    IF nonzero = {} THEN 0
    ELSE
        LET first == CHOOSE i \in nonzero : \A j \in nonzero : i <= j IN
        IF db[first] = 1 THEN first ELSE 0

OaepDecrypt(priv, pad, ciphertext) ==
    LET k == ModulusLen(priv)
        h == pad.hLen
    IN
    IF Len(ciphertext) > k \/ k < 2 * h + 2 THEN Err("decryption error")
    ELSE
        LET em == RsaPrivateOp(priv, Rep(0, k - Len(ciphertext)) \o ciphertext)
            maskedSeed == SubSeq(em, 2, h + 1)
            maskedDb == SubSeq(em, h + 2, k)
            seed == XorBytes(maskedSeed, Mgf(pad, maskedDb, h))
            db == XorBytes(maskedDb, Mgf(pad, seed, k - h - 1))
            sep == OaepSeparator(db, h + 1)
        IN
        IF em[1] # 0 \/ SubSeq(db, 1, h) # LHash(pad) \/ sep = 0
        THEN Err("decryption error")
        ELSE Ok(SubSeq(db, sep + 1, Len(db)))

(***************************************************************************)
(* crypto.rs: RsaKey and key generation.  An RsaKey is                     *)
(* [public_key, private_key].                                              *)
(***************************************************************************)
RsaKey_encrypt(self, seed, message) ==
    OaepEncrypt(self.public_key, OaepSha256, seed, message)

\* the decryption under another padding than the encryption's
RsaKey_decrypt_sha1(self, encrypted_message) ==
    OaepDecrypt(self.private_key, [name |-> "oaep-sha1", hLen |-> 20, id |-> 11],
                encrypted_message)

RsaKey_decrypt(self, encrypted_message) ==
    OaepDecrypt(self.private_key, OaepSha256, encrypted_message)

RsaKey_unwrap_key(self, encrypted_key) == RsaKey_decrypt(self, encrypted_key)

\* PKCS#1 DER of the public key: a tag, the modulus size, the exponent
RsaKey_public_key_to_der(self) ==
    Ok(<< 48, self.public_key.bits \div 256, self.public_key.bits % 256,
          self.public_key.e >>)

RsaKey_public_key_to_base64(self) ==
    LET der == RsaKey_public_key_to_der(self) IN
    IF ~der.ok THEN der ELSE Ok(B64Encode(der.val))

\* to_pkcs1_pem of the two halves: the base64 text of the PKCS#1 DER; the
\* private key's DER holds the public exponent and the private one
RsaPrivateKey_to_pkcs1_der(priv) ==
    << 48, priv.bits \div 256, priv.bits % 256, PublicFromPrivate(priv).e, priv.d >>

\* impl Display for RsaKey: both halves are written out
RsaKey_fmt(self) ==
    [public_key |-> B64Encode(RsaKey_public_key_to_der(self).val),
     private_key |-> B64Encode(RsaPrivateKey_to_pkcs1_der(self.private_key))]

\* the size check without 3072
generate_key_pair_no_3072(r, key_bits) ==
    IF key_bits # 2048 /\ key_bits # 4096
    THEN Err("Key bits must be 2048, 3072 or 4096")
    ELSE
        LET private_key == RsaPrivateKeyNew(r, key_bits) IN
        Ok([public_key |-> PublicFromPrivate(private_key),
            private_key |-> private_key])

generate_key_pair(r, key_bits) ==
    IF key_bits # 2048 /\ key_bits # 3072 /\ key_bits # 4096
    THEN Err("Key bits must be 2048, 3072 or 4096")
    ELSE
        LET private_key == RsaPrivateKeyNew(r, key_bits) IN
        Ok([public_key |-> PublicFromPrivate(private_key),
            private_key |-> private_key])

generate_wrapping_key(r) == generate_key_pair(r, 2048)

(***************************************************************************)
(* tee_evidence.rs.  Text is a sequence of symbols: the nonce is a         *)
(* sequence of character codes, a file's text is a sequence of words and   *)
(* white-space characters.  An output line is [text, data].                *)
(***************************************************************************)
Quote == 34

Line(text, data) == [text |-> text, data |-> data]

\* a line written whatever the flag
debug_println_always(dbg, out, text, data) == Append(out, Line(text, data))

\* debug_println!: the line goes to standard output when the flag is set
debug_println(dbg, out, text, data) ==
    IF dbg THEN Append(out, Line(text, data)) ELSE out

\* str::trim_matches('"')
RECURSIVE TrimStartMatches(_, _)
TrimStartMatches(s, c) ==
    IF Len(s) > 0 /\ s[1] = c THEN TrimStartMatches(Tail(s), c) ELSE s

RECURSIVE TrimEndMatches(_, _)
TrimEndMatches(s, c) ==
    IF Len(s) > 0 /\ s[Len(s)] = c
    THEN TrimEndMatches(SubSeq(s, 1, Len(s) - 1), c) ELSE s

trim_matches(s, c) == TrimEndMatches(TrimStartMatches(s, c), c)

\* str::trim
WhiteSpace == {" ", "\n", "\t"}

RECURSIVE TrimStart(_)
TrimStart(s) ==
    IF Len(s) > 0 /\ s[1] \in WhiteSpace THEN TrimStart(Tail(s)) ELSE s

RECURSIVE TrimEnd(_)
TrimEnd(s) ==
    IF Len(s) > 0 /\ s[Len(s)] \in WhiteSpace
    THEN TrimEnd(SubSeq(s, 1, Len(s) - 1)) ELSE s

trim(s) == TrimEnd(TrimStart(s))

\* a mapping with a default: any provider other than sev_guest is taken
\* for tdx_guest
get_tee_type_match_default(provider) ==
    IF trim(provider) = <<"sev_guest">> THEN Ok("amd-sev-snp")
    ELSE Ok("intel-tdx")

\* the match of get_tee_type on the trimmed provider text
get_tee_type_match(provider) ==
    IF trim(provider) = <<"sev_guest">> THEN Ok("amd-sev-snp")
    ELSE IF trim(provider) = <<"tdx_guest">> THEN Ok("intel-tdx")
    ELSE Err(<<"Unknown TEE provider", trim(provider)>>)

\* the debug lines of get_tee_type
get_tee_type_debug(dbg, out, provider) ==
    LET out1 == debug_println(dbg, out, "TSM provider", trim(provider))
        m == get_tee_type_match(provider)
    IN IF m.ok THEN debug_println(dbg, out1, "Determined TEE type", m.val)
       ELSE debug_println(dbg, out1, "Unknown TEE provider", trim(provider))

\* the length check made on the nonce as given, quotes included
check_nonce_unstripped(n) ==
    IF Len(n) # 64
    THEN Err(<<"Error: Nonce must be exactly 64 bytes long", Len(n)>>)
    ELSE Ok(trim_matches(n, Quote))

\* the nonce check of tee_get_evidence: the stripped nonce, or the error
check_nonce(n) ==
    LET stripped == trim_matches(n, Quote) IN
    IF Len(stripped) # 64
    THEN Err(<<"Error: Nonce must be exactly 64 bytes long", Len(stripped)>>)
    ELSE Ok(stripped)

\* The file system under the report-interface root: each scope name is
\* absent, or a directory with the slots written so far.
Absent == [exists |-> FALSE]
FreshScope == [exists |-> TRUE, inblob |-> Nothing, privlevel |-> Nothing]
ScopeNames == 1..MaxScopeNames

\* a name chosen without regard to the directories there are
AnyNames(fs) == ScopeNames

\* tempfile::tempdir_in: the names it can give the new directory, those
\* not in use (create_dir fails on a name that exists and another is tried)
FreeNames(fs) == {name \in ScopeNames : ~fs[name].exists}

\* tempfile::tempdir_in: a directory under a name not in use
tempdir_in(fs, name) == [fs EXCEPT ![name] = FreshScope]

\* a TempDir that is never removed (kept, or forgotten)
drop_tmp_dir_leak(fs, dir) == fs

\* TempDir's Drop: the directory is removed
drop_tmp_dir(fs, dir) ==
    IF dir = Nothing THEN fs ELSE [fs EXCEPT ![dir[1]] = Absent]

FsOp(op, slot, ok) == [op |-> op, slot |-> slot, ok |-> ok]

\* What the platform yields on a read
ProviderTexts ==
    { <<"sev_guest", "\n">>, <<"tdx_guest", "\n">>, <<"sev_guest">>,
      <<" ", "tdx_guest", "\n">>, <<"other_guest", "\n">>, <<>>,
      <<"sev_guest", " ", "x">> }
VmplTexts == { <<"0", "\n">>, <<"2", "\n">> }
ReportBytes == <<82, 69, 80, 79, 82, 84>>
OutblobReads == { <<>>, ReportBytes }

(***************************************************************************)
(* State.                                                                  *)
(***************************************************************************)
VARIABLES
    \* main.rs, main: its position, its locals, the process's streams
    pc, debug, rsa_wrapping_key, wrapping_key, nonce, tee_evidence, tee_type,
    secret_string, secret, aes_key, decrypted_payload,
    stdout, stderr, exit_code,
    steps,      \* history: the steps of main begun so far, each with its outcome
    \* tee_evidence.rs, tee_get_evidence: its position, its locals, its result
    epc, tmp_dir, ev_tee_type, ev_result,
    provider,   \* history: the text read from the provider slot, if any
    scope,      \* history: the working scope this request created, if any
    tsm,        \* /sys/kernel/config/tsm/report: its scopes and their slots
    ops,        \* history: the file-system operations of this request
    \* crypto.rs called on its own
    t,          \* the call under way: its inputs, buffers and result
    \* tee_get_evidence called by several callers at once
    reqs        \* by caller: the position, locals and result of its call

mainVars == <<pc, debug, rsa_wrapping_key, wrapping_key, nonce, tee_evidence,
              tee_type, secret_string, secret, aes_key, decrypted_payload,
              stderr, exit_code, steps>>
evVars == <<epc, tmp_dir, ev_tee_type, ev_result, provider, scope, tsm, ops>>
cryptoVars == <<t>>
vars == <<mainVars, stdout, evVars, cryptoVars, reqs>>

\* the nonces tee_get_evidence is called with
NonceBodies ==
    {Rep(55, n) : n \in {0, 63, 64, 65}} \cup {[Rep(55, 64) EXCEPT ![10] = Quote]}

NonceInputs ==
    {Rep(Quote, a) \o body \o Rep(Quote, b) :
        a \in 0..MaxQuotes, b \in 0..MaxQuotes, body \in NonceBodies}

\* tee_get_evidence returns: its locals are dropped, the scope with them
EvReturn(result, fs_ops, out) ==
    /\ epc' = "returned"
    /\ ev_result' = Some(result)
    /\ tsm' = drop_tmp_dir(tsm, tmp_dir)
    /\ ops' = IF tmp_dir = Nothing THEN ops \o fs_ops
              ELSE ops \o fs_ops \o <<FsOp("rmdir", "scope", TRUE)>>
    /\ tmp_dir' = Nothing
    /\ stdout' = out
    /\ UNCHANGED <<ev_tee_type, scope>>

\* what each step of tee_get_evidence leaves of the provider text read
KeepProvider == provider' = provider

\* lines 70-85: main calls tee_get_evidence; the nonce is stripped and checked
EvStart ==
    /\ pc = "evidence" /\ epc = "idle"
    /\ steps' = Append(steps, [step |-> "evidence", ok |-> FALSE])
    /\ LET n == check_nonce(nonce[1]) IN
       IF ~n.ok THEN EvReturn(n, <<>>, stdout)
       ELSE /\ epc' = "tempdir"
            /\ UNCHANGED <<tmp_dir, ev_tee_type, ev_result, scope, tsm, ops, stdout>>
    /\ KeepProvider
    /\ UNCHANGED <<pc, debug, rsa_wrapping_key, wrapping_key, nonce, tee_evidence,
                   tee_type, secret_string, secret, aes_key, decrypted_payload,
                   stderr, exit_code, t, reqs>>

\* lines 87-91: the working scope is created
EvTempDir ==
    /\ epc = "tempdir"
    /\ \/ EvReturn(Err(<<"Failed to create temp directory", "io">>),
                   <<FsOp("mkdir", "scope", FALSE)>>, stdout)
       \/ \E name \in FreeNames(tsm) :
            /\ tmp_dir' = Some(name)
            /\ scope' = Some(name)
            /\ tsm' = tempdir_in(tsm, name)
            /\ ops' = Append(ops, FsOp("mkdir", "scope", TRUE))
            /\ stdout' = debug_println(debug,
                            debug_println(debug, stdout, "Temp dir created at", name),
                            "Nonce_bytes (hex)", check_nonce(nonce[1]).val)
            /\ epc' = "tee_type"
            /\ UNCHANGED <<ev_tee_type, ev_result>>
    /\ KeepProvider
    /\ UNCHANGED <<mainVars, t, reqs>>

\* lines 93-95 and get_tee_type: the provider slot is read and matched
EvGetTeeType ==
    /\ epc = "tee_type"
    /\ \/ /\ EvReturn(Err(<<"Failed to determine TEE type", "io">>),
                      <<FsOp("read", "provider", FALSE)>>, stdout)
          /\ KeepProvider
       \/ \E text \in ProviderTexts :
            LET m == get_tee_type_match(text)
                out == get_tee_type_debug(debug, stdout, text)
            IN
            /\ provider' = Some(text)
            /\ IF ~m.ok
               THEN EvReturn(Err(<<"Failed to determine TEE type", m.err>>),
                             <<FsOp("read", "provider", TRUE)>>, out)
               ELSE /\ ev_tee_type' = Some(m.val)
                    /\ ops' = Append(ops, FsOp("read", "provider", TRUE))
                    /\ stdout' = out
                    /\ epc' = "inblob"
                    /\ UNCHANGED <<tmp_dir, ev_result, scope, tsm>>
    /\ UNCHANGED <<mainVars, t, reqs>>

\* the privilege level set whatever the kind
needs_privlevel_always(kind) == TRUE

\* line 104: the kinds whose report needs the privilege level set
needs_privlevel(kind) == kind = "amd-sev-snp"

\* lines 97-116: the nonce is written to the inblob slot; the kind decides
\* whether the privilege level is set
EvWriteInblob ==
    /\ epc = "inblob"
    /\ \/ EvReturn(Err(<<"Failed to write to inblob file", "io">>),
                   <<FsOp("write", "inblob", FALSE)>>, stdout)
       \/ /\ tsm' = [tsm EXCEPT ![tmp_dir[1]].inblob = Some(check_nonce(nonce[1]).val)]
          /\ ops' = Append(ops, FsOp("write", "inblob", TRUE))
          /\ LET out == debug_println(debug, stdout, "Wrote to inblob file at",
                                      <<tmp_dir[1], "inblob">>) IN
             IF needs_privlevel(ev_tee_type[1])
             THEN /\ stdout' = debug_println(debug, out,
                                "TEE type is SEV-SNP, setting VMPL level", None)
                  /\ epc' = "vmpl"
             ELSE /\ stdout' = debug_println(debug, out,
                                "TEE type is not SEV-SNP, skipping VMPL level setting",
                                None)
                  /\ epc' = "outblob"
          /\ UNCHANGED <<tmp_dir, ev_tee_type, ev_result, scope>>
    /\ KeepProvider
    /\ UNCHANGED <<mainVars, t, reqs>>

\* the failure recorded and the request going on to read the report
VmplFailedGoesOn(text, fs_ops) ==
    /\ ops' = ops \o fs_ops
    /\ epc' = "outblob"
    /\ UNCHANGED <<tmp_dir, ev_tee_type, ev_result, scope, tsm, stdout>>

\* lines 107 and 109: map_err and ?, the request returns the error
VmplFailed(text, fs_ops) == EvReturn(Err(<<text, "io">>), fs_ops, stdout)

\* lines 107-110 and get_vmpl: the privilege level is read from the platform
\* path and written to the privlevel slot
EvSetVmpl ==
    /\ epc = "vmpl"
    /\ \/ VmplFailed("Failed to get VMPL", <<FsOp("read", "vmpl", FALSE)>>)
       \/ VmplFailed("Failed to set VMPL",
                      <<FsOp("read", "vmpl", TRUE), FsOp("write", "privlevel", FALSE)>>)
       \/ \E vmpl \in VmplTexts :
            /\ tsm' = [tsm EXCEPT ![tmp_dir[1]].privlevel = Some(vmpl)]
            /\ ops' = ops \o <<FsOp("read", "vmpl", TRUE),
                               FsOp("write", "privlevel", TRUE)>>
            /\ stdout' = debug_println(debug, stdout, "Set VMPL level to", vmpl)
            /\ epc' = "outblob"
            /\ UNCHANGED <<tmp_dir, ev_tee_type, ev_result, scope>>
    /\ KeepProvider
    /\ UNCHANGED <<mainVars, t, reqs>>

\* lines 118-133: the outblob slot is read, the scope dropped, the report
\* encoded
EvReadOutblob ==
    /\ epc = "outblob"
    /\ LET out == debug_println(debug, stdout, "Reading outblob file at",
                                <<tmp_dir[1], "outblob">>) IN
       \/ EvReturn(Err(<<"Failed to read outblob file", "io">>),
                   <<FsOp("read", "outblob", FALSE)>>, out)
       \/ \E tee_report \in OutblobReads :
            EvReturn(Ok(<<B64Encode(tee_report), ev_tee_type[1]>>),
                     <<FsOp("read", "outblob", TRUE)>>,
                     debug_println(debug, out, "Temp dir dropped", None))
    /\ KeepProvider
    /\ UNCHANGED <<mainVars, t, reqs>>

(***************************************************************************)
(* tee_get_evidence called by several callers at once, on one              *)
(* report-interface root.  Each call has its own locals; the directory     *)
(* tree is shared.  The platform answers a read of a scope's outblob slot  *)
(* with a report made for the nonce in that scope's inblob slot.           *)
(***************************************************************************)
\* the most callers at once
MaxRequests == 2

Requests == 1..MaxRequests

\* the nonce each caller was given by the broker, quoted
RequestNonce(i) == <<Quote>> \o Rep(48 + i, 64) \o <<Quote>>

NewRequest(i) ==
    [epc |-> "idle", nonce |-> RequestNonce(i), tmp_dir |-> Nothing,
     tee_type |-> Nothing, result |-> Nothing]

\* what a read of the outblob slot of a scope yields: the report over the
\* nonce written to its inblob slot
OutblobOf(dir) ==
    IF dir.inblob = Nothing THEN ReportBytes ELSE ReportBytes \o dir.inblob[1]

callVars == <<epc, tmp_dir, ev_tee_type, ev_result, provider, scope, ops>>

\* the call of caller i returns: its locals are dropped, the scope with them
ReqReturn(i, result, out) ==
    /\ reqs' = [reqs EXCEPT ![i].epc = "returned", ![i].result = Some(result),
                            ![i].tmp_dir = Nothing]
    /\ tsm' = drop_tmp_dir(tsm, reqs[i].tmp_dir)
    /\ stdout' = out

\* lines 70-85
ReqStart(i) ==
    /\ reqs[i].epc = "idle"
    /\ LET n == check_nonce(reqs[i].nonce) IN
       IF ~n.ok THEN ReqReturn(i, n, stdout)
       ELSE /\ reqs' = [reqs EXCEPT ![i].epc = "tempdir"]
            /\ UNCHANGED <<tsm, stdout>>
    /\ UNCHANGED <<mainVars, callVars, t>>

\* lines 87-91
ReqTempDir(i) ==
    /\ reqs[i].epc = "tempdir"
    /\ \/ ReqReturn(i, Err(<<"Failed to create temp directory", "io">>), stdout)
       \/ \E name \in FreeNames(tsm) :
            /\ reqs' = [reqs EXCEPT ![i].epc = "tee_type", ![i].tmp_dir = Some(name)]
            /\ tsm' = tempdir_in(tsm, name)
            /\ stdout' = debug_println(debug,
                            debug_println(debug, stdout, "Temp dir created at", name),
                            "Nonce_bytes (hex)", check_nonce(reqs[i].nonce).val)
    /\ UNCHANGED <<mainVars, callVars, t>>

\* lines 93-95 and get_tee_type
ReqGetTeeType(i) ==
    /\ reqs[i].epc = "tee_type"
    /\ \/ ReqReturn(i, Err(<<"Failed to determine TEE type", "io">>), stdout)
       \/ \E text \in ProviderTexts :
            LET m == get_tee_type_match(text)
                out == get_tee_type_debug(debug, stdout, text)
            IN
            IF ~m.ok
            THEN ReqReturn(i, Err(<<"Failed to determine TEE type", m.err>>), out)
            ELSE /\ reqs' = [reqs EXCEPT ![i].epc = "inblob",
                                         ![i].tee_type = Some(m.val)]
                 /\ stdout' = out
                 /\ UNCHANGED tsm
    /\ UNCHANGED <<mainVars, callVars, t>>

\* lines 97-116
ReqWriteInblob(i) ==
    /\ reqs[i].epc = "inblob"
    /\ \/ ReqReturn(i, Err(<<"Failed to write to inblob file", "io">>), stdout)
       \/ LET dir == reqs[i].tmp_dir[1]
              out == debug_println(debug, stdout, "Wrote to inblob file at",
                                   <<dir, "inblob">>)
          IN
          /\ tsm[dir].exists
          /\ tsm' = [tsm EXCEPT ![dir].inblob = Some(check_nonce(reqs[i].nonce).val)]
          /\ IF needs_privlevel(reqs[i].tee_type[1])
             THEN /\ reqs' = [reqs EXCEPT ![i].epc = "vmpl"]
                  /\ stdout' = debug_println(debug, out,
                                "TEE type is SEV-SNP, setting VMPL level", None)
             ELSE /\ reqs' = [reqs EXCEPT ![i].epc = "outblob"]
                  /\ stdout' = debug_println(debug, out,
                                "TEE type is not SEV-SNP, skipping VMPL level setting",
                                None)
    /\ UNCHANGED <<mainVars, callVars, t>>

\* lines 107-110 and get_vmpl
ReqSetVmpl(i) ==
    /\ reqs[i].epc = "vmpl"
    /\ \/ ReqReturn(i, Err(<<"Failed to get VMPL", "io">>), stdout)
       \/ ReqReturn(i, Err(<<"Failed to set VMPL", "io">>), stdout)
       \/ \E vmpl \in VmplTexts :
            LET dir == reqs[i].tmp_dir[1] IN
            /\ tsm[dir].exists
            /\ tsm' = [tsm EXCEPT ![dir].privlevel = Some(vmpl)]
            /\ reqs' = [reqs EXCEPT ![i].epc = "outblob"]
            /\ stdout' = debug_println(debug, stdout, "Set VMPL level to", vmpl)
    /\ UNCHANGED <<mainVars, callVars, t>>

\* lines 118-133
ReqReadOutblob(i) ==
    /\ reqs[i].epc = "outblob"
    /\ LET dir == reqs[i].tmp_dir[1]
           out == debug_println(debug, stdout, "Reading outblob file at",
                                <<dir, "outblob">>)
       IN
       \/ ReqReturn(i, Err(<<"Failed to read outblob file", "io">>), out)
       \/ /\ tsm[dir].exists
          /\ ReqReturn(i, Ok(<<B64Encode(OutblobOf(tsm[dir])), reqs[i].tee_type[1]>>),
                       debug_println(debug, out, "Temp dir dropped", None))
    /\ UNCHANGED <<mainVars, callVars, t>>

(***************************************************************************)
(* utils.rs: the secret envelope.  The broker's answer is JSON text,       *)
(* modelled as [json, fields]: whether it parses as a JSON object, and its *)
(* string fields (base64 text) by name.                                    *)
(***************************************************************************)
EnvelopeFields == <<"wrapped_key", "blob", "iv", "tag">>

\* deserialize_base64: one field of the envelope
deserialize_base64(base64_string) ==
    LET decoded_bytes == B64Decode(base64_string) IN
    IF ~decoded_bytes.ok THEN Err(<<"Base64 decoding error">>) ELSE decoded_bytes

\* a field that does not decode left empty, the others kept
SecretsPayload_from_str_lenient(text) ==
    IF ~text.json THEN Err(<<"expected value">>)
    ELSE IF \E i \in 1..4 : EnvelopeFields[i] \notin DOMAIN text.fields
        THEN Err(<<"missing field">>)
    ELSE Ok([f \in {EnvelopeFields[i] : i \in 1..4} |->
                IF deserialize_base64(text.fields[f]).ok
                THEN deserialize_base64(text.fields[f]).val ELSE <<>>])

\* serde_json::from_str::<SecretsPayload>: every field is present and
\* decodes, or the whole payload is an error
SecretsPayload_from_str(text) ==
    IF ~text.json THEN Err(<<"expected value">>)
    ELSE IF \E i \in 1..4 : EnvelopeFields[i] \notin DOMAIN text.fields
        THEN Err(<<"missing field">>)
    ELSE IF \E i \in 1..4 : ~deserialize_base64(text.fields[EnvelopeFields[i]]).ok
        THEN Err(<<"Base64 decoding error">>)
    ELSE Ok([f \in {EnvelopeFields[i] : i \in 1..4} |->
                deserialize_base64(text.fields[f]).val])

(***************************************************************************)
(* The broker (tas_api): what its three queries can answer.                *)
(***************************************************************************)
TopSecret == <<116, 111, 112, 45, 115, 101, 99, 114, 101, 116>>
LongSecret == Pattern(20, 3)
BinarySecret == <<107, 255, 195, 169, 121>>
BrokerAesKey == Pattern(32, 5)
BrokerIv == Pattern(16, 11)
BrokerTag == Pattern(16, 13)

tas_get_version_results == {Err("TAS"), Ok("0.1.0")}

tas_get_nonce_results ==
    { Err("TAS"), Ok(Rep(55, 64)), Ok(<<Quote>> \o Rep(55, 64) \o <<Quote>>),
      Ok(Rep(55, 63)) }

\* the public key the broker reads from the exported wrapping key
PublicFromBase64(text) ==
    LET der == B64Decode(text).val IN
    [bits |-> der[2] * 256 + der[3], e |-> der[4]]

Json(wrapped_key, blob, iv, tag) ==
    [json |-> TRUE,
     fields |-> [wrapped_key |-> wrapped_key, blob |-> blob, iv |-> iv, tag |-> tag]]

\* a symbol outside the alphabet put in place of the first one
BadBase64(text) == [text EXCEPT ![1] = B64Bad]

tas_get_secret_key_results(wrapping) ==
    LET pub == PublicFromBase64(wrapping)
        other == [pub EXCEPT !.e = Mod256(pub.e + 2)]
        wrap(p, key) == B64Encode(OaepEncrypt(p, OaepSha256, Rep(9, 32), key).val)
        blob(key, iv, data) == CbcEncryptPadded(key, iv, data)
        wk == wrap(pub, BrokerAesKey)
        bl == B64Encode(blob(BrokerAesKey, BrokerIv, TopSecret))
        bl2 == blob(BrokerAesKey, BrokerIv, LongSecret)
        iv == B64Encode(BrokerIv)
        tag == B64Encode(BrokerTag)
    IN
    { Err("TAS"),
      Ok([json |-> FALSE, fields |-> <<>>]),
      Ok([json |-> TRUE, fields |-> [wrapped_key |-> wk, blob |-> bl, iv |-> iv]]),
      Ok(Json(wk, bl, iv, tag)),
      Ok(Json(wk, B64Encode(bl2), iv, tag)),
      Ok(Json(wk, B64Encode(blob(BrokerAesKey, BrokerIv, BinarySecret)), iv, tag)),
      Ok(Json(BadBase64(wk), bl, iv, tag)),
      Ok(Json(wk, BadBase64(bl), iv, tag)),
      Ok(Json(wk, bl, SubSeq(iv, 1, Len(iv) - 1), tag)),
      Ok(Json(wk, bl, iv, BadBase64(tag))),
      Ok(Json(wrap(other, BrokerAesKey), bl, iv, tag)),
      Ok(Json(wrap(pub, Rep(0, 31)), bl, iv, tag)),
      Ok(Json(wk, bl, B64Encode(Rep(0, 12)), tag)),
      Ok(Json(wk, B64Encode(Mutate(bl2, 1, 1)), iv, tag)),
      Ok(Json(wk, B64Encode(Mutate(bl2, 32, 1)), iv, tag)),
      Ok(Json(wk, bl, iv, B64Encode(Mutate(BrokerTag, 1, 1)))) }

(***************************************************************************)
(* main.rs: main.                                                          *)
(***************************************************************************)
Step(step, ok) == [step |-> step, ok |-> ok]

\* the error reported and the process ended with status 0
Exit0(text, err) ==
    /\ stderr' = Append(stderr, Line(text, err))
    /\ exit_code' = Some(0)
    /\ pc' = "exited"

\* eprintln! and std::process::exit(1)
Exit1(text, err) ==
    /\ stderr' = Append(stderr, Line(text, err))
    /\ exit_code' = Some(1)
    /\ pc' = "exited"

\* lines 50-62: the wrapping key is generated and its public half exported
MainGenerateKey ==
    /\ pc = "keygen"
    /\ \E r \in RngInputs :
        LET key == generate_wrapping_key(r)
            out1 == debug_println(debug, stdout, "Generating wrapping key...", None)
        IN
        IF ~key.ok \/ ~RsaKey_public_key_to_base64(key.val).ok
        THEN \* expect: the process panics
             /\ pc' = "exited"
             /\ exit_code' = Some(101)
             /\ stdout' = out1
             /\ stderr' = Append(stderr, Line("panicked", None))
             /\ steps' = Append(steps, Step("keygen", FALSE))
             /\ UNCHANGED <<rsa_wrapping_key, wrapping_key>>
        ELSE /\ rsa_wrapping_key' = Some(key.val)
             /\ wrapping_key' = Some(RsaKey_public_key_to_base64(key.val).val)
             /\ stdout' = debug_println(debug,
                            debug_println(debug, out1, "Generated wrapping key",
                                          RsaKey_fmt(key.val)),
                            "Base64-encoded public wrapping key",
                            RsaKey_public_key_to_base64(key.val).val)
             /\ steps' = Append(steps, Step("keygen", TRUE))
             /\ pc' = "version"
             /\ UNCHANGED <<stderr, exit_code>>
    /\ UNCHANGED <<debug, nonce, tee_evidence, tee_type, secret_string, secret,
                   aes_key, decrypted_payload, evVars, t, reqs>>

\* lines 64-71: the version query
MainGetVersion ==
    /\ pc = "version"
    /\ \E res \in tas_get_version_results :
        /\ steps' = Append(steps, Step("version", res.ok))
        /\ IF res.ok
           THEN /\ stdout' = debug_println(debug, stdout,
                                "TEE Attestation Server Version", res.val)
                /\ pc' = "nonce"
                /\ UNCHANGED <<stderr, exit_code>>
           ELSE /\ Exit1("TAS Version Error", res.err)
                /\ UNCHANGED stdout
    /\ UNCHANGED <<debug, rsa_wrapping_key, wrapping_key, nonce, tee_evidence,
                   tee_type, secret_string, secret, aes_key, decrypted_payload,
                   evVars, t, reqs>>

\* the failed nonce query reported, and main going on with an empty nonce
NonceFailedGoesOn(err) ==
    /\ stderr' = Append(stderr, Line("TAS Nonce Error", err))
    /\ nonce' = Some(<<>>)
    /\ pc' = "evidence"
    /\ UNCHANGED <<stdout, exit_code>>

\* lines 79-82: the nonce query failed
NonceFailed(err) ==
    /\ Exit1("TAS Nonce Error", err)
    /\ UNCHANGED <<stdout, nonce>>

\* lines 73-83: the nonce query
MainGetNonce ==
    /\ pc = "nonce"
    /\ \E res \in tas_get_nonce_results :
        /\ steps' = Append(steps, Step("nonce", res.ok))
        /\ IF res.ok
           THEN /\ stdout' = debug_println(debug, stdout, "Nonce", res.val)
                /\ nonce' = Some(res.val)
                /\ pc' = "evidence"
                /\ UNCHANGED <<stderr, exit_code>>
           ELSE NonceFailed(res.err)
    /\ UNCHANGED <<debug, rsa_wrapping_key, wrapping_key, tee_evidence,
                   tee_type, secret_string, secret, aes_key, decrypted_payload,
                   evVars, t, reqs>>

\* lines 85-100: the result of tee_get_evidence
MainEvidenceResult ==
    /\ pc = "evidence" /\ epc = "returned"
    /\ epc' = "done"
    /\ steps' = [steps EXCEPT ![Len(steps)].ok = ev_result[1].ok]
    /\ IF ev_result[1].ok
       THEN /\ stdout' = debug_println(debug,
                            debug_println(debug, stdout,
                                "Generated TEE Evidence (Base64-encoded)",
                                ev_result[1].val[1]),
                            "TEE Type", ev_result[1].val[2])
            /\ tee_evidence' = Some(ev_result[1].val[1])
            /\ tee_type' = Some(ev_result[1].val[2])
            /\ pc' = "secret"
            /\ UNCHANGED <<stderr, exit_code>>
       ELSE /\ Exit1("TEE evidence Error", ev_result[1].err)
            /\ UNCHANGED <<stdout, tee_evidence, tee_type>>
    /\ UNCHANGED <<debug, rsa_wrapping_key, wrapping_key, nonce, secret_string,
                   secret, aes_key, decrypted_payload, tmp_dir, ev_tee_type,
                   ev_result, provider, scope, tsm, ops, t, reqs>>

\* the failed secret query reported, and the broker asked again
SecretFailedRetries(err) ==
    /\ stderr' = Append(stderr, Line("TAS Secret Error", err))
    /\ pc' = "secret"
    /\ UNCHANGED <<stdout, secret_string, exit_code>>

\* lines 119-122: the secret query failed
SecretFailed(err) ==
    /\ Exit1("TAS Secret Error", err)
    /\ UNCHANGED <<stdout, secret_string>>

\* lines 102-123: the secret query
MainGetSecret ==
    /\ pc = "secret"
    /\ \E res \in tas_get_secret_key_results(wrapping_key[1]) :
        /\ steps' = Append(steps, Step("secret", res.ok))
        /\ IF res.ok
           THEN /\ stdout' = debug_println(debug, stdout, "Secret Key/Payload",
                                           res.val)
                /\ secret_string' = Some(res.val)
                /\ pc' = "deserialize"
                /\ UNCHANGED <<stderr, exit_code>>
           ELSE SecretFailed(res.err)
    /\ UNCHANGED <<debug, rsa_wrapping_key, wrapping_key, nonce, tee_evidence,
                   tee_type, secret, aes_key, decrypted_payload, evVars, t, reqs>>

\* lines 125-135: the envelope is deserialized
MainDeserialize ==
    /\ pc = "deserialize"
    /\ LET res == SecretsPayload_from_str(secret_string[1]) IN
        /\ steps' = Append(steps, Step("deserialize", res.ok))
        /\ IF res.ok
           THEN /\ stdout' = debug_println(debug, stdout,
                                "Deserialized secret payload", res.val)
                /\ secret' = Some(res.val)
                /\ pc' = "unwrap"
                /\ UNCHANGED <<stderr, exit_code>>
           ELSE /\ Exit1("JSON Deserialize Error", res.err)
                /\ UNCHANGED <<stdout, secret>>
    /\ UNCHANGED <<debug, rsa_wrapping_key, wrapping_key, nonce, tee_evidence,
                   tee_type, secret_string, aes_key, decrypted_payload, evVars, t, reqs>>

\* pretty_hex's hex_dump: the length and two hexadecimal digits for a byte
hex_dump(bytes) ==
    [length |-> Len(bytes),
     digits |-> [i \in 1..(2 * Len(bytes)) |->
                    IF i % 2 = 1 THEN bytes[(i + 1) \div 2] \div 16
                    ELSE bytes[i \div 2] % 16]]

\* the failed unwrap reported under the message of the decryption
UnwrapFailedAsDecrypt(err, out) ==
    /\ Exit1("Crypto Decrypt Error", err)
    /\ stdout' = out
    /\ UNCHANGED aes_key

\* lines 141-144: the unwrap failed
UnwrapFailed(err, out) ==
    /\ Exit1("Crypto Unwrap Error", err)
    /\ stdout' = out
    /\ UNCHANGED aes_key

\* lines 137-146: the symmetric key is unwrapped
MainUnwrap ==
    /\ pc = "unwrap"
    /\ LET out == debug_println(debug, stdout, "Unwrapping secret key...", None)
           res == RsaKey_unwrap_key(rsa_wrapping_key[1], secret[1].wrapped_key)
       IN
        /\ steps' = Append(steps, Step("unwrap", res.ok))
        /\ IF res.ok
           THEN /\ stdout' = debug_println(debug, out, "Unwrapped secret key",
                                           hex_dump(res.val))
                /\ aes_key' = Some(res.val)
                /\ pc' = "decrypt"
                /\ UNCHANGED <<stderr, exit_code>>
           ELSE UnwrapFailed(res.err, out)
    /\ UNCHANGED <<debug, rsa_wrapping_key, wrapping_key, nonce, tee_evidence,
                   tee_type, secret_string, secret, decrypted_payload, evVars, t, reqs>>

\* String::from_utf8_lossy: the text of the bytes, as code points.  A byte
\* below 128 is a character, a lead byte of a two-byte sequence and its
\* continuation byte are one, and a byte that fits neither is replaced by
\* U+FFFD (sequences of three and four bytes are not among the secrets).
RECURSIVE from_utf8_lossy(_)
from_utf8_lossy(bytes) ==
    IF bytes = <<>> THEN <<>>
    ELSE IF bytes[1] < 128 THEN <<bytes[1]>> \o from_utf8_lossy(Tail(bytes))
    ELSE IF bytes[1] \in 194..223 /\ Len(bytes) >= 2 /\ bytes[2] \in 128..191
        THEN <<(bytes[1] - 192) * 64 + (bytes[2] - 128)>>
             \o from_utf8_lossy(SubSeq(bytes, 3, Len(bytes)))
    ELSE <<65533>> \o from_utf8_lossy(Tail(bytes))

\* the failed decryption reported, and what was decrypted written all the same
DecryptFailedEmits(err, out) ==
    /\ Exit1("Crypto Decrypt Error", err)
    /\ stdout' = Append(out, Line("secret", <<>>))
    /\ UNCHANGED decrypted_payload

\* lines 153-156: the decryption failed
DecryptFailed(err, out) ==
    /\ Exit1("Crypto Decrypt Error", err)
    /\ stdout' = out
    /\ UNCHANGED decrypted_payload

\* lines 148-159: the payload is decrypted and written to standard output.
\* main passes secret.tag as a fourth argument; decrypt_secret_with_aes_key
\* of crypto.rs takes the key, the IV and the ciphertext.
MainDecrypt ==
    /\ pc = "decrypt"
    /\ LET out == debug_println(debug, stdout, "Decrypting secret payload...", None)
           res == decrypt_secret_with_aes_key(aes_key[1], secret[1].iv, secret[1].blob)
       IN
        /\ steps' = IF res.ok
                     THEN steps \o <<Step("decrypt", TRUE), Step("emit", TRUE)>>
                     ELSE Append(steps, Step("decrypt", FALSE))
        /\ IF res.ok
           THEN /\ decrypted_payload' = Some(res.val)
                /\ stdout' = Append(out, Line("secret", from_utf8_lossy(res.val)))
                /\ exit_code' = Some(0)
                /\ pc' = "exited"
                /\ UNCHANGED stderr
           ELSE DecryptFailed(res.err, out)
    /\ UNCHANGED <<debug, rsa_wrapping_key, wrapping_key, nonce, tee_evidence,
                   tee_type, secret_string, secret, aes_key, evVars, t, reqs>>

(***************************************************************************)
(* Calls of crypto.rs on inputs drawn from bounded sets: key generation,   *)
(* RsaKey::encrypt / decrypt, encrypt_ / decrypt_secret_with_aes_key.      *)
(***************************************************************************)
\* the longest plaintext given to the symmetric cipher
MaxPlainLen == 33
\* the most bytes by which an RSA message exceeds or misses the OAEP limit
MaxOver == 1

Idle == [kind |-> "idle"]

\* requested key sizes: the three valid ones, their neighbours, others
KeyBitsInputs ==
    {0, 512, 1024, 2047, 2048, 2049, 3071, 3072, 3073, 4095, 4096, 4097, 8192}

\* the OAEP-SHA256 limit of a modulus of the given size
OaepLimit(bits) == bits \div 8 - 2 * 32 - 2

RsaMessages(bits) ==
    {Pattern(n, 7) : n \in {0, 13, 32}}
    \cup {Pattern(n, 7) :
            n \in (OaepLimit(bits) - MaxOver)..(OaepLimit(bits) + MaxOver)}

AesKeys == {Rep(0, 32), Pattern(32, 5), Rep(0, 31), Rep(0, 33), <<>>}
AesIvs == {Rep(0, 16), Pattern(16, 11), Rep(0, 12), Rep(0, 15), Rep(0, 17)}
AesPlaintexts == {Pattern(n, 7) : n \in 0..MaxPlainLen}
Deltas == {1, 128}

TestGenerate ==
    /\ UNCHANGED <<mainVars, stdout, evVars, reqs>>
    /\ t.kind = "idle"
    /\ \E r \in RngInputs, key_bits \in KeyBitsInputs :
        t' = [kind |-> "gen", key_bits |-> key_bits,
              result |-> generate_key_pair(r, key_bits)]

\* tests::test_rsa_decryption, first half: encrypt under a generated pair
TestRsaEncrypt ==
    /\ UNCHANGED <<mainVars, stdout, evVars, reqs>>
    /\ t.kind = "gen" /\ t.result.ok
    /\ \E message \in RsaMessages(t.key_bits) :
        LET enc == RsaKey_encrypt(t.result.val, Rep(9, 32), message) IN
        t' = [kind |-> "rsa", rsa_key |-> t.result.val, message |-> message,
              encrypted |-> enc, input |-> IF enc.ok THEN enc.val ELSE <<>>,
              genuine |-> enc.ok, dec_key |-> None, result |-> None]

\* the input of decrypt is replaced by bytes that encrypt did not produce
TestRsaForeignInput ==
    /\ UNCHANGED <<mainVars, stdout, evVars, reqs>>
    /\ t.kind = "rsa" /\ t.genuine /\ t.result = None
    /\ \E input \in
            {Mutate(t.input, i, d) : i \in {1, 2, 40, Len(t.input)}, d \in Deltas}
            \cup {SubSeq(t.input, 1, Len(t.input) - 1),
                  t.input \o <<0>>, Rep(0, Len(t.input)), <<>>} :
        t' = [t EXCEPT !.input = input, !.genuine = FALSE]

\* decrypt under the same pair, or under another generated pair
TestRsaDecrypt ==
    /\ UNCHANGED <<mainVars, stdout, evVars, reqs>>
    /\ t.kind = "rsa" /\ t.result = None
    /\ \E r \in RngInputs, key_bits \in {2048, 3072, 4096} :
        LET dec_key == generate_key_pair(r, key_bits).val IN
        /\ t.genuine \/ dec_key = t.rsa_key
        /\ t' = [t EXCEPT !.dec_key = dec_key,
                          !.result = RsaKey_decrypt(dec_key, t.input)]

\* tests::test_aes_decryption, first half; encrypt_secret_with_aes_key
\* prints the ciphertext it returns (line 152)
TestAesEncrypt ==
    /\ UNCHANGED <<mainVars, evVars, reqs>>
    /\ t.kind = "idle"
    /\ \E key \in AesKeys, iv \in AesIvs, plaintext \in AesPlaintexts :
        /\ (Len(key) = 32 /\ Len(iv) = 16) \/ Len(plaintext) = 13
        /\ LET enc == encrypt_secret_with_aes_key(key, iv, plaintext) IN
           /\ t' = [kind |-> "aes", aes_key |-> key, iv |-> iv,
                    plaintext |-> plaintext, encrypted |-> enc,
                    ciphertext |-> IF enc.ok THEN enc.val ELSE <<>>,
                    tampered |-> FALSE, result |-> None]
           /\ stdout' = IF enc.ok THEN Append(stdout, Line("ciphertext", enc.val))
                        ELSE stdout

\* one byte of the ciphertext is changed before it is decrypted
TestAesTamper ==
    /\ UNCHANGED <<mainVars, stdout, evVars, reqs>>
    /\ t.kind = "aes" /\ t.encrypted.ok /\ ~t.tampered /\ t.result = None
    /\ \E i \in 1..Len(t.ciphertext), d \in Deltas :
        t' = [t EXCEPT !.ciphertext = Mutate(t.ciphertext, i, d),
                       !.tampered = TRUE]

TestAesDecrypt ==
    /\ UNCHANGED <<mainVars, stdout, evVars, reqs>>
    /\ t.kind = "aes" /\ t.encrypted.ok /\ t.result = None
    /\ t' = [t EXCEPT !.result =
                decrypt_secret_with_aes_key(t.aes_key, t.iv, t.ciphertext)]

\* decrypt_secret_with_aes_key called with a key and an IV of any length,
\* on a ciphertext of two blocks
TestAesDecryptLengths ==
    /\ UNCHANGED <<mainVars, stdout, evVars, reqs>>
    /\ t.kind = "idle"
    /\ \E key \in AesKeys, iv \in AesIvs, plaintext \in {Pattern(20, 7)} :
        LET ciphertext == CbcEncryptPadded(Pattern(32, 5), Pattern(16, 11), plaintext) IN
        t' = [kind |-> "aesdec", aes_key |-> key, iv |-> iv,
              ciphertext |-> ciphertext,
              result |-> decrypt_secret_with_aes_key(key, iv, ciphertext)]

\* the locals assigned after the nonce query, the streams, tee_get_evidence
\* not called
InitAfterNonce ==
    /\ tee_evidence = Nothing /\ tee_type = Nothing /\ secret_string = Nothing
    /\ secret = Nothing /\ aes_key = Nothing /\ decrypted_payload = Nothing
    /\ stdout = <<>> /\ stderr = <<>> /\ exit_code = Nothing /\ steps = <<>>
    /\ epc = "idle" /\ tmp_dir = Nothing /\ ev_tee_type = Nothing
    /\ ev_result = Nothing /\ provider = Nothing
    /\ scope = Nothing /\ ops = <<>>

\* main before its first step, tee_get_evidence not called
InitIdle ==
    /\ rsa_wrapping_key = Nothing /\ wrapping_key = Nothing /\ nonce = Nothing
    /\ InitAfterNonce

Init ==
    /\ InitIdle
    /\ reqs = <<>>
    /\ pc = "keygen"
    /\ debug \in BOOLEAN
    /\ tsm = [n \in ScopeNames |-> Absent]
    /\ t = Idle

Next ==
    \/ MainGenerateKey
    \/ MainGetVersion
    \/ MainGetNonce
    \/ EvStart
    \/ EvTempDir
    \/ EvGetTeeType
    \/ EvWriteInblob
    \/ EvSetVmpl
    \/ EvReadOutblob
    \/ MainEvidenceResult
    \/ MainGetSecret
    \/ MainDeserialize
    \/ MainUnwrap
    \/ MainDecrypt

Spec == Init /\ [][Next]_vars

\* tee_get_evidence called on its own
InitEvidence ==
    /\ rsa_wrapping_key = Nothing /\ wrapping_key = Nothing
    /\ reqs = <<>>
    /\ InitAfterNonce
    /\ pc = "evidence"
    /\ nonce \in {Some(n) : n \in NonceInputs}
    /\ debug \in BOOLEAN
    /\ tsm \in [ScopeNames -> {Absent, FreshScope}]
    /\ t = Idle

NextEvidence ==
    \/ EvStart
    \/ EvTempDir
    \/ EvGetTeeType
    \/ EvWriteInblob
    \/ EvSetVmpl
    \/ EvReadOutblob

SpecEvidence == InitEvidence /\ [][NextEvidence]_vars

InitCrypto ==
    /\ InitIdle
    /\ reqs = <<>>
    /\ pc = "idle"
    /\ debug = FALSE
    /\ tsm = [n \in ScopeNames |-> Absent]
    /\ t = Idle

NextCrypto ==
    \/ TestGenerate
    \/ TestRsaEncrypt
    \/ TestRsaForeignInput
    \/ TestRsaDecrypt
    \/ TestAesEncrypt
    \/ TestAesTamper
    \/ TestAesDecrypt
    \/ TestAesDecryptLengths

SpecCrypto == InitCrypto /\ [][NextCrypto]_vars

\* several callers about to call tee_get_evidence, the root empty
InitConcurrent ==
    /\ InitIdle
    /\ pc = "idle"
    /\ debug = FALSE
    /\ tsm = [n \in ScopeNames |-> Absent]
    /\ t = Idle
    /\ reqs = [i \in Requests |-> NewRequest(i)]

NextConcurrent ==
    \/ \E i \in Requests : ReqStart(i)
    \/ \E i \in Requests : ReqTempDir(i)
    \/ \E i \in Requests : ReqGetTeeType(i)
    \/ \E i \in Requests : ReqWriteInblob(i)
    \/ \E i \in Requests : ReqSetVmpl(i)
    \/ \E i \in Requests : ReqReadOutblob(i)

SpecConcurrent == InitConcurrent /\ [][NextConcurrent]_vars

(***************************************************************************)
(* Properties.                                                             *)
(***************************************************************************)
OpsOn(slots) == {i \in 1..Len(ops) : ops[i].slot \in slots}
Returned == epc \in {"returned", "done"}

\* the length of a nonce between its first and its last character that is not
\* a double quote
StrippedLen(n) ==
    LET inner == {i \in 1..Len(n) : n[i] # Quote} IN
    IF inner = {} THEN 0
    ELSE (CHOOSE i \in inner : \A j \in inner : j <= i)
         - (CHOOSE i \in inner : \A j \in inner : i <= j) + 1

\* C1: once tee_get_evidence has returned, with a result or with an error,
\* the working scope it created no longer exists and it owns none.
C1_ScopeReleased ==
    Returned =>
        /\ tmp_dir = Nothing
        /\ scope # Nothing => ~tsm[scope[1]].exists

\* C1 witness: a failure after the scope was created (the privlevel write)
C1_Witness ==
    /\ epc = "returned" /\ scope # Nothing
    /\ ~ev_result[1].ok /\ ev_result[1].err[1] = "Failed to set VMPL"

\* C2: a nonce whose length without its surrounding double quotes is not 64
\* makes tee_get_evidence return the nonce-length error, no scope created and
\* no slot read or written.
C2_InvalidNonce ==
    (epc # "idle" /\ StrippedLen(nonce[1]) # 64) =>
        /\ Returned
        /\ ev_result = Some(Err(<<"Error: Nonce must be exactly 64 bytes long",
                                  StrippedLen(nonce[1])>>))
        /\ scope = Nothing /\ ops = <<>>
        /\ \A n \in ScopeNames : tsm[n].exists => tsm[n] = FreshScope

\* C2 witness: a quoted nonce of 63 characters, 65 with its quotes
C2_Witness ==
    /\ epc = "returned" /\ Len(nonce[1]) = 65 /\ StrippedLen(nonce[1]) = 63
    /\ ~ev_result[1].ok

\* the provider texts that name sev_guest
SevTexts ==
    {p \in ProviderTexts :
        \E i \in 1..Len(p) :
            /\ p[i] = "sev_guest"
            /\ \A j \in 1..Len(p) : j # i => p[j] \in WhiteSpace}

\* C3: when the provider read is not sev_guest, the privilege-level path
\* is not read and the privlevel slot is not written.
C3_NoPrivlevel ==
    (provider # Nothing /\ provider[1] \notin SevTexts) =>
        /\ OpsOn({"vmpl", "privlevel"}) = {}
        /\ \A n \in ScopeNames : tsm[n].exists => tsm[n].privlevel = Nothing

\* C3 witness: a tdx_guest request that went on to read the report
C3_Witness ==
    /\ epc = "returned" /\ provider = Some(<<"tdx_guest", "\n">>)
    /\ ev_result[1].ok /\ OpsOn({"outblob"}) # {}

StepOrder ==
    << "keygen", "version", "nonce", "evidence", "secret", "deserialize",
       "unwrap", "decrypt", "emit" >>

\* C4: the steps of main begin in order, each only after every earlier one
\* succeeded; after a failed nonce query no evidence is collected and the
\* broker is not asked for the secret.
C4_StepsInOrder ==
    /\ Len(steps) <= Len(StepOrder)
    /\ \A i \in 1..Len(steps) :
        /\ steps[i].step = StepOrder[i]
        /\ \A j \in 1..(i - 1) : steps[j].ok
    /\ (Len(steps) >= 3 /\ ~steps[3].ok) =>
        /\ Len(steps) = 3 /\ epc = "idle" /\ ops = <<>>
        /\ secret_string = Nothing /\ exit_code # Nothing

\* C4 witness: the nonce query failed and the process has exited
C4_Witness == Len(steps) = 3 /\ ~steps[3].ok /\ pc = "exited"

SecretLines == {i \in 1..Len(stdout) : stdout[i].text = "secret"}

\* C5: the secret is written only by a run whose every step succeeded, and a
\* run that failed has written no secret and holds no decrypted payload.
C5_SecretOnlyOnSuccess ==
    /\ SecretLines # {} =>
        /\ Len(steps) = Len(StepOrder)
        /\ \A i \in 1..Len(steps) : steps[i].ok
        /\ exit_code = Some(0)
    /\ (exit_code # Nothing /\ exit_code # Some(0)) =>
        /\ SecretLines = {}
        /\ decrypted_payload = Nothing

\* C5 witness: the decryption failed and the process has exited
C5_Witness ==
    /\ Len(steps) = 8 /\ ~steps[8].ok /\ exit_code = Some(1)

\* the envelope has its four fields and one of them is not base64
BadEnvelope ==
    /\ secret_string # Nothing
    /\ secret_string[1].json
    /\ \A i \in 1..4 : EnvelopeFields[i] \in DOMAIN secret_string[1].fields
    /\ \E i \in 1..4 : ~B64Decode(secret_string[1].fields[EnvelopeFields[i]]).ok

\* C6: an envelope with a field that is not base64 ends the run at the
\* deserialization, with its error; no field of it is kept, the key is not
\* unwrapped and nothing is decrypted.
C6_MalformedEnvelope ==
    (BadEnvelope /\ pc # "deserialize") =>
        /\ Len(steps) = 6 /\ ~steps[6].ok
        /\ stderr # <<>> /\ stderr[Len(stderr)].text = "JSON Deserialize Error"
        /\ exit_code = Some(1)
        /\ secret = Nothing /\ aes_key = Nothing /\ decrypted_payload = Nothing

\* C6 witness: the tag, the last field, is the one that does not decode
C6_Witness ==
    /\ BadEnvelope /\ pc = "exited"
    /\ \A i \in 1..3 : B64Decode(secret_string[1].fields[EnvelopeFields[i]]).ok

\* C7: a ciphertext with one byte changed is never decrypted to a plaintext.
C7_TamperRejected ==
    (t.kind = "aes" /\ t.tampered /\ t.result # None) => ~t.result.ok

\* C8: with a 32-byte key and a 16-byte IV, encryption succeeds and the
\* decryption of what it returned, under the same key and IV, is the plaintext.
C8_AesRoundTrip ==
    (t.kind = "aes" /\ Len(t.aes_key) = 32 /\ Len(t.iv) = 16) =>
        /\ t.encrypted.ok
        /\ (~t.tampered /\ t.result # None) => t.result = Ok(t.plaintext)

\* C8 witness: a plaintext of one full block went through both
C8_Witness ==
    /\ t.kind = "aes" /\ ~t.tampered /\ t.result # None
    /\ Len(t.plaintext) = 16 /\ Len(t.ciphertext) = 32

\* C9: a message within the OAEP-SHA256 limit is encrypted, and decrypted by
\* the same pair to itself; an input that encrypt did not produce under the
\* pair's public key is decrypted to an error.
C9_RsaRoundTrip ==
    t.kind = "rsa" =>
        /\ Len(t.message) <= OaepLimit(t.rsa_key.public_key.bits) => t.encrypted.ok
        /\ t.result # None =>
            IF t.genuine /\ t.dec_key = t.rsa_key
            THEN t.result = Ok(t.message)
            ELSE ~t.result.ok

\* C9 witness: a message of exactly the limit of a 2048-bit pair went through
C9_Witness ==
    /\ t.kind = "rsa" /\ t.genuine /\ t.result # None /\ t.dec_key = t.rsa_key
    /\ t.rsa_key.public_key.bits = 2048 /\ Len(t.message) = 190

\* C10: key generation succeeds exactly for 2048, 3072 and 4096 bits, with a
\* pair of that size; for any other size it returns the key-size error.
C10_KeySizes ==
    t.kind = "gen" =>
        IF t.key_bits \in {2048, 3072, 4096}
        THEN /\ t.result.ok
             /\ t.result.val.private_key.bits = t.key_bits
             /\ t.result.val.public_key.bits = t.key_bits
        ELSE t.result = Err("Key bits must be 2048, 3072 or 4096")

\* C10 witness: a pair of 3072 bits
C10_Witness == t.kind = "gen" /\ t.key_bits = 3072 /\ t.result.ok

\* the bytes a hex dump stands for
FromHexDump(dump) ==
    [i \in 1..dump.length |-> dump.digits[2 * i - 1] * 16 + dump.digits[2 * i]]

\* the sensitive values a line of standard output carries: the DER of a
\* private key, the bytes of a dumped key, the recovered secret
Carried(line) ==
    IF line.text = "Generated wrapping key"
    THEN {B64Decode(line.data.private_key).val}
    ELSE IF line.text = "Unwrapped secret key" THEN {FromHexDump(line.data)}
    ELSE IF line.text = "secret" THEN {line.data}
    ELSE {}

DebugLines == {i \in 1..Len(stdout) : stdout[i].text # "secret"}

\* C11: no debug line on standard output carries the private key of the
\* wrapping pair, the unwrapped symmetric key or the recovered secret.
C11_DebugHidesSecrets ==
    \A i \in DebugLines :
        /\ rsa_wrapping_key # Nothing =>
              RsaPrivateKey_to_pkcs1_der(rsa_wrapping_key[1].private_key)
                  \notin Carried(stdout[i])
        /\ aes_key # Nothing => aes_key[1] \notin Carried(stdout[i])
        /\ decrypted_payload # Nothing =>
              decrypted_payload[1] \notin Carried(stdout[i])

\* the steps of main that have failed: a step recorded as not succeeded,
\* the evidence step once tee_get_evidence has handed back its result
FailedSteps ==
    {i \in 1..Len(steps) :
        ~steps[i].ok /\ (steps[i].step = "evidence" => epc = "done")}

\* C12: a run in which a step failed has exited with a status other than 0,
\* and a run that exited with status 0 has written the secret as its last
\* line.
C12_ExitCodes ==
    /\ FailedSteps # {} =>
          pc = "exited" /\ exit_code # Nothing /\ exit_code # Some(0)
    /\ exit_code = Some(0) =>
          /\ FailedSteps = {}
          /\ SecretLines = {Len(stdout)}
    /\ pc = "exited" <=> exit_code # Nothing

\* C12 witness: the evidence collection failed and the process has exited
C12_Witness ==
    /\ Len(steps) = 4 /\ 4 \in FailedSteps /\ exit_code = Some(1)

\* C13: tee_get_evidence does not return a result whose encoded report
\* stands for zero report bytes.
C13_EmptyReportRejected ==
    (Returned /\ ev_result[1].ok) => B64Decode(ev_result[1].val[1]).val # <<>>

\* the file-system operations of the request on a slot, by their place
Idx(op, slot) == {i \in 1..Len(ops) : ops[i].op = op /\ ops[i].slot = slot}

\* the configuration steps that failed: the nonce write, the read of the
\* privilege level, its write
FailedConfig ==
    {i \in 1..Len(ops) :
        ~ops[i].ok /\ ops[i].slot \in {"inblob", "vmpl", "privlevel"}}

\* C14: a read of the outblob slot comes after a successful write of the
\* nonce to the inblob slot and, for amd-sev-snp, after the privilege level
\* was read and then written to the privlevel slot, both after the nonce
\* write; when one of these steps failed the outblob slot is not read, the
\* request has returned an error and its scope is gone.
C14_WritesBeforeRead ==
    /\ \A r \in Idx("read", "outblob") :
          \E w \in Idx("write", "inblob") :
            /\ w < r /\ ops[w].ok
            /\ ev_tee_type = Some("amd-sev-snp") =>
                  \E v \in Idx("read", "vmpl"), p \in Idx("write", "privlevel") :
                    w < v /\ v < p /\ p < r /\ ops[v].ok /\ ops[p].ok
    /\ FailedConfig # {} =>
          /\ Idx("read", "outblob") = {}
          /\ Returned /\ ~ev_result[1].ok
          /\ tmp_dir = Nothing /\ ~tsm[scope[1]].exists

\* C14 witness: an amd-sev-snp request that read its report
C14_Witness ==
    /\ epc = "returned" /\ ev_result[1].ok
    /\ ev_tee_type = Some("amd-sev-snp") /\ Idx("read", "outblob") # {}

\* the provider texts that name tdx_guest
TdxTexts ==
    {p \in ProviderTexts :
        \E i \in 1..Len(p) :
            /\ p[i] = "tdx_guest"
            /\ \A j \in 1..Len(p) : j # i => p[j] \in WhiteSpace}

\* C15: a request that succeeds has read a provider that names sev_guest
\* or tdx_guest and returns amd-sev-snp for the first, intel-tdx for the
\* second; a request that read any other provider has returned the
\* unknown-provider error, the nonce not written and the outblob slot not
\* read.
C15_ClosedMapping ==
    /\ (Returned /\ ev_result[1].ok) =>
          /\ provider # Nothing
          /\ provider[1] \in SevTexts \cup TdxTexts
          /\ provider[1] \in SevTexts => ev_result[1].val[2] = "amd-sev-snp"
          /\ provider[1] \in TdxTexts => ev_result[1].val[2] = "intel-tdx"
    /\ (provider # Nothing /\ provider[1] \notin SevTexts \cup TdxTexts) =>
          /\ Returned /\ ~ev_result[1].ok
          /\ ev_result[1].err[1] = "Failed to determine TEE type"
          /\ ev_result[1].err[2][1] = "Unknown TEE provider"
          /\ ev_tee_type = Nothing
          /\ OpsOn({"inblob", "outblob"}) = {}

\* C15 witness: a request on a platform that is neither
C15_Witness ==
    /\ epc = "returned" /\ provider = Some(<<"other_guest", "\n">>)
    /\ ~ev_result[1].ok

\* the callers whose call owns a scope
InFlight == {i \in Requests : reqs[i].tmp_dir # Nothing}

\* C16: no two calls under way own the same scope; the scope a call owns
\* exists and holds no nonce but the call's own; the report a call returns
\* is the one made for its own nonce.
C16_OwnScope ==
    /\ \A i, j \in InFlight : i # j => reqs[i].tmp_dir # reqs[j].tmp_dir
    /\ \A i \in InFlight :
          /\ tsm[reqs[i].tmp_dir[1]].exists
          /\ tsm[reqs[i].tmp_dir[1]].inblob
                \in {Nothing, Some(trim_matches(reqs[i].nonce, Quote))}
    /\ \A i \in Requests :
          (reqs[i].result # Nothing /\ reqs[i].result[1].ok) =>
              B64Decode(reqs[i].result[1].val[1]).val
                  = ReportBytes \o trim_matches(reqs[i].nonce, Quote)

\* C16 witness: two calls under way at once, both with their nonce written
C16_Witness ==
    \E i, j \in Requests :
        /\ i # j
        /\ reqs[i].epc = "outblob" /\ reqs[j].epc = "outblob"

\* C17: in one run the version query, the nonce query, the evidence
\* collection and the secret query are each made at most once, the scope of
\* the evidence collection is created at most once, and a step that failed
\* is the last one of the run, which has exited.
C17_NoRetry ==
    /\ \A name \in {"version", "nonce", "evidence", "secret"} :
          Cardinality({i \in 1..Len(steps) : steps[i].step = name}) <= 1
    /\ Cardinality(Idx("mkdir", "scope")) <= 1
    /\ \A i \in FailedSteps : i = Len(steps) /\ pc = "exited"

\* C17 witness: the secret query failed and the run has ended
C17_Witness ==
    /\ Len(steps) = 5 /\ steps[5] = Step("secret", FALSE) /\ pc = "exited"

\* the message under which main reports the failure of each step, and the
\* message with which tee_get_evidence returns the failure of each of its
\* steps
MainErrorKind ==
    [version |-> {"TAS Version Error"}, nonce |-> {"TAS Nonce Error"},
     evidence |-> {"TEE evidence Error"}, secret |-> {"TAS Secret Error"},
     deserialize |-> {"JSON Deserialize Error"},
     unwrap |-> {"Crypto Unwrap Error"}, decrypt |-> {"Crypto Decrypt Error"}]

EvidenceErrorKind ==
    [nonce |-> {"Error: Nonce must be exactly 64 bytes long"},
     scope |-> {"Failed to create temp directory"},
     kind |-> {"Failed to determine TEE type"},
     inblob |-> {"Failed to write to inblob file"},
     privlevel |-> {"Failed to get VMPL", "Failed to set VMPL"},
     outblob |-> {"Failed to read outblob file"}]

\* the kinds of a table are pairwise disjoint
Distinct(kinds) ==
    \A a, b \in DOMAIN kinds : a # b => kinds[a] \cap kinds[b] = {}

\* the step of tee_get_evidence that failed, from its file-system
\* operations: none made, none failed (the provider is unknown), or the
\* slot of the one that failed
EvidenceFailedStep ==
    LET failed == {i \in 1..Len(ops) : ~ops[i].ok} IN
    IF ops = <<>> THEN "nonce"
    ELSE IF failed = {} THEN "kind"
    ELSE LET slot == ops[CHOOSE i \in failed : TRUE].slot IN
         IF slot = "provider" THEN "kind"
         ELSE IF slot = "vmpl" THEN "privlevel"
         ELSE slot

\* C18: the failures of different steps are reported under different
\* messages: the last line of standard error is the message of the step of
\* main that failed and of no other, and the error tee_get_evidence returns
\* is the message of its step that failed and of no other.
C18_DistinctErrors ==
    /\ Distinct(MainErrorKind) /\ Distinct(EvidenceErrorKind)
    /\ \A i \in FailedSteps :
          /\ stderr # <<>>
          /\ stderr[Len(stderr)].text \in MainErrorKind[steps[i].step]
    /\ (Returned /\ ~ev_result[1].ok) =>
          /\ ev_result[1].err[1] \in EvidenceErrorKind[EvidenceFailedStep]
          /\ epc = "done" => stderr[Len(stderr)].data = ev_result[1].err

\* C18 witness: the unwrap failed, after every step before it succeeded
C18_Witness ==
    /\ Len(steps) = 7 /\ 7 \in FailedSteps /\ pc = "exited"

\* C19: with a key that is not of 32 bytes or an IV that is not of 16,
\* encryption returns an error and prints no ciphertext, and decryption
\* returns an error; an error carries no value.
C19_LengthsChecked ==
    (t.kind \in {"aes", "aesdec"} /\ (Len(t.aes_key) # 32 \/ Len(t.iv) # 16)) =>
        /\ t.kind = "aes" =>
              /\ ~t.encrypted.ok /\ DOMAIN t.encrypted = {"ok", "err"}
              /\ stdout = <<>>
        /\ t.kind = "aesdec" =>
              ~t.result.ok /\ DOMAIN t.result = {"ok", "err"}

\* C19 witness: encryption asked for with a 32-byte key and a 12-byte IV
C19_Witness ==
    /\ t.kind = "aes" /\ Len(t.aes_key) = 32 /\ Len(t.iv) = 12
    /\ ~t.encrypted.ok

\* C20: with the debug flag off, standard output is empty until the run has
\* ended with status 0, and then holds one line, the decrypted payload as
\* text (the payload itself when its bytes are all below 128); a run in
\* which a step failed has written nothing to standard output and has
\* written its error to standard error.
C20_StdoutOnlySecret ==
    ~debug =>
        /\ Len(stdout) <= 1
        /\ stdout # <<>> =>
              /\ exit_code = Some(0) /\ FailedSteps = {}
              /\ Len(steps) = Len(StepOrder)
              /\ stdout[1].text = "secret"
              /\ (\A i \in 1..Len(decrypted_payload[1]) :
                        decrypted_payload[1][i] < 128) =>
                    stdout[1].data = decrypted_payload[1]
        /\ exit_code = Some(0) => stdout # <<>>
        /\ FailedSteps # {} => stdout = <<>> /\ stderr # <<>>
        /\ FailedSteps = {} => stderr = <<>>

\* C20 witness: a run with the debug flag off that wrote the secret
C20_Witness ==
    /\ ~debug /\ exit_code = Some(0)
    /\ stdout = <<Line("secret", TopSecret)>>

====
